---- MODULE Spec2Model ----
(***************************************************************************)
(* Model of monitoring/src/logger.py: the process-wide AppLogger wrapper   *)
(* (singleton metaclass, configuration, credential resolution, the shared  *)
(* AzureLogHandler with its filters and telemetry processors, loggers,     *)
(* tracers and the flask exporter).                                        *)
(***************************************************************************)
EXTENDS Integers, Sequences, FiniteSets, TLC

VARIABLES _instances, created, returned, config, app_insights_key, log_level,
          handler, loggers, requested, env, firstEnvKey, lastLevelWrite, ret

vars == <<_instances, created, returned, config, app_insights_key, log_level,
          handler, loggers, requested, env, firstEnvKey, lastLevelWrite, ret>>

(* ---------------------------- bounds ---------------------------------- *)
\* at most this many filters (= get_logger calls that reach addFilter)
MaxFilters == 2

(* ---------------------------- values ---------------------------------- *)
None == "<None>"          \* Python None, also the result of dict.get on a missing key
Unset == "<unset>"        \* the key is not mentioned in the dict passed by the caller
BoolTrue == "<bool True>" \* the boolean True, which is not the string "true"
HANDLER_NAME == "Azure Application Insights Handler"

\* log_level values: an int or a level name
IntLevel(n) == [t |-> "int", n |-> n, s |-> ""]
StrLevel(s) == [t |-> "str", n |-> 0, s |-> s]
UnsetLevel == [t |-> "unset", n |-> 0, s |-> ""]
INFO == 20
DEBUG == 10
WARNING == 30
NOTSET == 0

Names == {"a", "b"}
Keys == {"k"}
Vals == {"1", "2"}
Absent == "<absent>"
Dims == [Keys -> Vals \cup {Absent}]
EmptyDims == [k \in Keys |-> Absent]

ConfigKeys == {None, "K1", "bad"}
EnvValues == {None, "E1", "E2"}
LevelInputs == {IntLevel(INFO), StrLevel("DEBUG"), StrLevel("bogus")}
EnabledInputs == {"true", "false", "True", BoolTrue, None}
RecordLevels == {DEBUG, INFO}

\* the dicts a caller can pass to AppLogger(...) and update_config(...);
\* config=None is the dict that mentions nothing
NoOptions == [log_level |-> UnsetLevel, logging_enabled |-> Unset,
              app_insights_key |-> Unset]
LevelDicts == {[NoOptions EXCEPT !.log_level = l] : l \in LevelInputs}
EnabledDicts == {[NoOptions EXCEPT !.logging_enabled = e] : e \in EnabledInputs}
KeyDicts == {[NoOptions EXCEPT !.app_insights_key = k] : k \in ConfigKeys}

ErrNone == "<no error>"
ErrKeyNotSet == "Exception is getting app insights key-> ApplicationInsights Key is not set"
ErrInvalidKey == "Exception is getting app insights key-> Invalid instrumentation key."
ErrLevel == "Unknown level / Level not an integer or a valid string"

(* ------------------------ pure helpers -------------------------------- *)
\* self.config = {"log_level": logging.INFO, "logging_enabled": "true"}
DefaultConfig == [log_level |-> IntLevel(INFO), logging_enabled |-> "true",
                  app_insights_key |-> None]

\* dict.setdefault semantics: a key already present keeps its value
DictSetDefault(old, new) == old

\* dict.update: shallow overwrite of the keys the argument mentions
DictUpdate(old, new) ==
  [log_level |-> IF new.log_level = UnsetLevel THEN old.log_level ELSE new.log_level,
   logging_enabled |-> IF new.logging_enabled = Unset THEN old.logging_enabled
                       ELSE new.logging_enabled,
   app_insights_key |-> IF new.app_insights_key = Unset THEN old.app_insights_key
                        ELSE new.app_insights_key]

\* utils.validate_instrumentation_key: raises on a malformed key
ValidKey(k) == k \in {"K1", "E1", "E2"}

\* a resolution that falls back to a placeholder key instead of raising
GetAppInsightsKeyDegraded(cached, envv) ==
  LET k == IF cached = None THEN envv ELSE cached
  IN IF k # None
     THEN IF ValidKey(k) THEN [ok |-> TRUE, key |-> k, field |-> k, err |-> ErrNone]
          ELSE [ok |-> FALSE, key |-> None, field |-> k, err |-> ErrInvalidKey]
     ELSE [ok |-> TRUE, key |-> "", field |-> k, err |-> ErrNone]

\* a resolution that lets the environment variable win over the configured key
GetAppInsightsKeyEnvFirst(cached, envv) ==
  LET k == IF envv # None THEN envv ELSE cached
  IN IF k # None
     THEN IF ValidKey(k) THEN [ok |-> TRUE, key |-> k, field |-> k, err |-> ErrNone]
          ELSE [ok |-> FALSE, key |-> None, field |-> k, err |-> ErrInvalidKey]
     ELSE [ok |-> FALSE, key |-> None, field |-> k, err |-> ErrKeyNotSet]

\* _get_app_insights_key: cached is self.app_insights_key on entry
GetAppInsightsKey(cached, envv) ==
  LET k == IF cached = None THEN envv ELSE cached
  IN IF k # None
     THEN IF ValidKey(k) THEN [ok |-> TRUE, key |-> k, field |-> k, err |-> ErrNone]
          ELSE [ok |-> FALSE, key |-> None, field |-> k, err |-> ErrInvalidKey]
     ELSE [ok |-> FALSE, key |-> None, field |-> k, err |-> ErrKeyNotSet]

\* logging._checkLevel as used by Logger.setLevel
CheckLevel(l) ==
  IF l.t = "int" THEN [ok |-> TRUE, n |-> l.n]
  ELSE IF l.t = "str" /\ l.s = "DEBUG" THEN [ok |-> TRUE, n |-> DEBUG]
  ELSE IF l.t = "str" /\ l.s = "INFO" THEN [ok |-> TRUE, n |-> INFO]
  ELSE [ok |-> FALSE, n |-> NOTSET]

\* CustomDimensionsFilter.filter: the record's own dimensions override the filter's
FilterDims(filterDims, recordDims) ==
  [k \in Keys |-> IF recordDims[k] # Absent THEN recordDims[k] ELSE filterDims[k]]

\* Filterer.filter: every filter of the handler runs, in the order added
RECURSIVE RunFilters(_, _)
RunFilters(filters, recordDims) ==
  IF filters = <<>> THEN recordDims
  ELSE RunFilters(Tail(filters), FilterDims(Head(filters), recordDims))

NoTags == [role |-> None, roleInstance |-> None]

\* _callback_add_role_name
CallbackAddRoleName(component_name, tags) ==
  [role |-> component_name, roleInstance |-> component_name]

\* apply_telemetry_processors: every processor runs, in the order added
RECURSIVE ApplyProcessors(_, _)
ApplyProcessors(processors, tags) ==
  IF processors = <<>> THEN tags
  ELSE ApplyProcessors(Tail(processors), CallbackAddRoleName(Head(processors), tags))

\* _get_trace_exporter, given the resolved key
TraceExporter(key, component_name) == [key |-> key, processors |-> <<component_name>>]

\* a sampler choice that compares logging_enabled case-insensitively
SamplerIgnoringCase(cfg) ==
  IF cfg.logging_enabled \notin {"true", "True"} THEN "AlwaysOff" ELSE "AlwaysOn"

\* get_tracer's choice of sampler
Sampler(cfg) == IF cfg.logging_enabled # "true" THEN "AlwaysOff" ELSE "AlwaysOn"

\* Logger.addHandler: the same handler object is not added twice
AddHandler(handlers, h) ==
  IF \E i \in 1..Len(handlers) : handlers[i] = h THEN handlers ELSE Append(handlers, h)

\* the name every handler built by _initialize_azure_log_handler carries
HandlerNameOf(h) == HANDLER_NAME

\* any(x for x in logger.handlers if x.name == self.HANDLER_NAME)
HasNamedHandler(handlers) ==
  \E i \in 1..Len(handlers) : HandlerNameOf(handlers[i]) = HANDLER_NAME

\* a slip that appends self.handler to logger.handlers without any check
AttachHandlerUnguarded(handlers, h, cfg) ==
  IF cfg.logging_enabled = "true" THEN Append(handlers, h) ELSE handlers

\* lines 95-97 of _initialize_logger
AttachHandler(handlers, h, cfg) ==
  IF cfg.logging_enabled = "true"
  THEN IF ~HasNamedHandler(handlers) THEN AddHandler(handlers, h) ELSE handlers
  ELSE handlers

\* a metaclass that forgets the membership test
NeverInInstances(inst) == FALSE

\* cls in cls._instances
InInstances(inst) == inst # 0

\* Logger.getEffectiveLevel with the root logger left at WARNING
EffectiveLevel(l) == IF l = NOTSET THEN WARNING ELSE l

NoRequest == [k \in Keys |-> "<not obtained>"]
NoHandler == [id |-> 0, key |-> None, filters |-> <<>>, processors |-> <<>>]

Ret0 == [op |-> "none", ok |-> TRUE, err |-> ErrNone, name |-> "", inst |-> 0,
         key |-> None, keyIn |-> None, cfgKey |-> None, envSeen |-> None,
         sampler |-> "", parent |-> FALSE, exporter |-> FALSE, handler |-> FALSE,
         tags |-> NoTags, dims |-> EmptyDims, own |-> EmptyDims,
         delivered |-> 0, level |-> 0]

(* ----------------------------- Init ----------------------------------- *)
Init ==
  /\ _instances = 0
  /\ created = 0
  /\ returned = {}
  /\ config = DefaultConfig
  /\ app_insights_key = None
  /\ log_level = IntLevel(INFO)
  /\ handler = NoHandler
  /\ loggers = [n \in Names |-> [level |-> NOTSET, handlers |-> <<>>]]
  /\ requested = [n \in Names |-> NoRequest]
  /\ env \in EnvValues
  /\ firstEnvKey = None
  /\ lastLevelWrite = IntLevel(INFO)
  /\ ret = Ret0

\* history: the value the environment variable had the first time it was resolved
\* since the configuration last said anything about app_insights_key
NoteEnvRead(cached, r) ==
  IF firstEnvKey = None /\ cached = None /\ r.ok THEN r.key ELSE firstEnvKey

(* ---------------------------- actions --------------------------------- *)
\* AppLogger(cfg): SingletonLoggerFactory.__call__ and, on first use, AppLogger.__init__
Call(cfg) ==
  IF InInstances(_instances)
  THEN /\ returned' = returned \cup {_instances}
       /\ ret' = [Ret0 EXCEPT !.op = "AppLogger", !.inst = _instances]
       /\ UNCHANGED <<_instances, created, config, app_insights_key, log_level,
                      handler, loggers, requested, env, firstEnvKey, lastLevelWrite>>
  ELSE LET c == DictUpdate(DefaultConfig, cfg)
           r == GetAppInsightsKey(c.app_insights_key, env)
       IN IF r.ok
          THEN /\ _instances' = created + 1
               /\ created' = created + 1
               /\ returned' = returned \cup {created + 1}
               /\ config' = c
               /\ app_insights_key' = r.field
               /\ log_level' = c.log_level
               /\ handler' = [id |-> created + 1, key |-> r.key,
                              filters |-> <<>>, processors |-> <<>>]
               /\ firstEnvKey' = NoteEnvRead(c.app_insights_key, r)
               /\ lastLevelWrite' = IF cfg.log_level = UnsetLevel
                                     THEN IntLevel(INFO) ELSE cfg.log_level
               /\ ret' = [Ret0 EXCEPT !.op = "__init__", !.inst = created + 1,
                                       !.key = r.key, !.keyIn = c.app_insights_key,
                                       !.cfgKey = c.app_insights_key, !.envSeen = env,
                                       !.handler = TRUE]
               /\ UNCHANGED <<loggers, requested, env>>
          ELSE /\ ret' = [Ret0 EXCEPT !.op = "__init__", !.ok = FALSE, !.err = r.err,
                                       !.keyIn = c.app_insights_key,
                                       !.cfgKey = c.app_insights_key, !.envSeen = env]
               /\ UNCHANGED <<_instances, created, returned, config, app_insights_key,
                              log_level, handler, loggers, requested, env, firstEnvKey,
                              lastLevelWrite>>

\* update_config(cfg)
UpdateConfig(cfg) ==
  /\ _instances # 0
  /\ LET c == DictUpdate(config, cfg)
     IN /\ config' = c
        /\ app_insights_key' = c.app_insights_key
        /\ log_level' = c.log_level
  /\ lastLevelWrite' = IF cfg.log_level = UnsetLevel THEN lastLevelWrite ELSE cfg.log_level
  /\ firstEnvKey' = IF cfg.app_insights_key = Unset THEN firstEnvKey ELSE None
  /\ ret' = [Ret0 EXCEPT !.op = "update_config"]
  /\ UNCHANGED <<_instances, created, returned, handler, loggers, requested, env>>

\* get_logger(name, dims): update_config(self.config), then _initialize_logger
GetLogger(name, dims) ==
  /\ _instances # 0
  /\ Len(handler.filters) < MaxFilters
  /\ app_insights_key' = config.app_insights_key
  /\ log_level' = config.log_level
  /\ LET lv == CheckLevel(config.log_level)
     IN IF lv.ok
        THEN /\ loggers' = [loggers EXCEPT ![name] =
                    [level |-> lv.n,
                     handlers |-> AttachHandler(@.handlers, handler.id, config)]]
             /\ handler' = [handler EXCEPT !.filters = Append(@, dims),
                                           !.processors = Append(@, name)]
             /\ requested' = [requested EXCEPT ![name] = dims]
             /\ ret' = [Ret0 EXCEPT !.op = "get_logger", !.name = name, !.dims = dims]
        ELSE /\ ret' = [Ret0 EXCEPT !.op = "get_logger", !.name = name, !.ok = FALSE,
                                     !.err = ErrLevel]
             /\ UNCHANGED <<loggers, handler, requested>>
  /\ UNCHANGED <<_instances, created, returned, config, env, firstEnvKey, lastLevelWrite>>

\* get_tracer(name, parent_tracer)
GetTracer(name, parent) ==
  /\ _instances # 0
  /\ log_level' = config.log_level
  /\ LET r == GetAppInsightsKey(config.app_insights_key, env)
         e == TraceExporter(r.key, name)
     IN /\ app_insights_key' = r.field
        /\ firstEnvKey' = NoteEnvRead(config.app_insights_key, r)
        /\ ret' = IF r.ok
                  THEN [Ret0 EXCEPT !.op = "get_tracer", !.name = name, !.key = e.key,
                                    !.keyIn = config.app_insights_key,
                                    !.cfgKey = config.app_insights_key, !.envSeen = env,
                                    !.sampler = Sampler(config), !.parent = parent,
                                    !.exporter = TRUE,
                                    !.tags = ApplyProcessors(e.processors, NoTags)]
                  ELSE [Ret0 EXCEPT !.op = "get_tracer", !.name = name, !.ok = FALSE,
                                    !.err = r.err, !.keyIn = config.app_insights_key,
                                    !.cfgKey = config.app_insights_key, !.envSeen = env]
  /\ UNCHANGED <<_instances, created, returned, config, handler, loggers, requested,
                 env, lastLevelWrite>>

\* enable_flask(flask_app, name)
EnableFlask(name) ==
  /\ _instances # 0
  /\ LET r == GetAppInsightsKey(app_insights_key, env)
         e == TraceExporter(r.key, name)
     IN /\ app_insights_key' = r.field
        /\ firstEnvKey' = NoteEnvRead(app_insights_key, r)
        /\ ret' = IF r.ok
                  THEN [Ret0 EXCEPT !.op = "enable_flask", !.name = name, !.key = e.key,
                                    !.keyIn = app_insights_key,
                                    !.cfgKey = config.app_insights_key, !.envSeen = env,
                                    !.exporter = TRUE,
                                    !.tags = ApplyProcessors(e.processors, NoTags)]
                  ELSE [Ret0 EXCEPT !.op = "enable_flask", !.name = name, !.ok = FALSE,
                                    !.err = r.err, !.keyIn = app_insights_key,
                                    !.cfgKey = config.app_insights_key, !.envSeen = env]
  /\ UNCHANGED <<_instances, created, returned, config, log_level, handler, loggers,
                 requested, env, lastLevelWrite>>

\* the process environment changes APPINSIGHTS_INSTRUMENTATION_KEY
SetEnv(v) ==
  /\ v # env
  /\ env' = v
  /\ ret' = [Ret0 EXCEPT !.op = "setenv"]
  /\ UNCHANGED <<_instances, created, returned, config, app_insights_key, log_level,
                 handler, loggers, requested, firstEnvKey, lastLevelWrite>>

\* a record of level lvl, with its own custom_dimensions own, is logged through the
\* logger get_logger returned for name; the shared handler filters it, builds the
\* envelope and runs its telemetry processors
Log(name, lvl, own) ==
  /\ requested[name] # NoRequest
  /\ LET enabled == lvl >= EffectiveLevel(loggers[name].level)
         n == IF enabled THEN Len(loggers[name].handlers) ELSE 0
     IN ret' = [Ret0 EXCEPT !.op = "log", !.name = name, !.level = lvl, !.own = own,
                            !.delivered = n,
                            !.dims = IF n > 0 THEN RunFilters(handler.filters, own)
                                     ELSE EmptyDims,
                            !.tags = IF n > 0 THEN ApplyProcessors(handler.processors, NoTags)
                                     ELSE NoTags]
  /\ UNCHANGED <<_instances, created, returned, config, app_insights_key, log_level,
                 handler, loggers, requested, env, firstEnvKey, lastLevelWrite>>

\* the logging side: construction, reconfiguration, loggers and records
LoggingConfigs == {NoOptions} \cup LevelDicts \cup EnabledDicts

NextLogging ==
  \/ \E cfg \in LoggingConfigs : Call(cfg)
  \/ \E cfg \in LoggingConfigs : UpdateConfig(cfg)
  \/ \E name \in Names, dims \in Dims : GetLogger(name, dims)
  \/ \E name \in Names, lvl \in RecordLevels, own \in Dims : Log(name, lvl, own)

InitLogging == Init /\ env = "E1"

SpecLogging == InitLogging /\ [][NextLogging]_vars

\* the credential side: construction, reconfiguration, the environment variable,
\* tracers and the flask exporter; get_logger takes part because it re-derives the
\* cached credential
CredentialConfigs == {NoOptions} \cup EnabledDicts \cup KeyDicts

NextCredential ==
  \/ \E cfg \in CredentialConfigs : Call(cfg)
  \/ \E cfg \in CredentialConfigs : UpdateConfig(cfg)
  \/ \E name \in Names : GetLogger(name, EmptyDims)
  \/ \E name \in Names, parent \in BOOLEAN : GetTracer(name, parent)
  \/ \E name \in Names : EnableFlask(name)
  \/ \E v \in EnvValues : SetEnv(v)

SpecCredential == Init /\ [][NextCredential]_vars

(* ------------------------------ claims -------------------------------- *)
Resolvers == {"__init__", "get_tracer", "enable_flask"}
RoleTags(name) == [role |-> name, roleInstance |-> name]
NamedHandlers(n) ==
  {i \in 1..Len(loggers[n].handlers) : HandlerNameOf(loggers[n].handlers[i]) = HANDLER_NAME}

\* C1: after any sequence of get_logger and update_config calls every logger has at
\* most one handler named "Azure Application Insights Handler"; a second get_logger
\* for the same component name does not add it again.
C1_AtMostOneTelemetryHandler == \A n \in Names : Cardinality(NamedHandlers(n)) <= 1

\* C1 witness: get_logger has returned the same component name twice, logging is
\* enabled, and the logger holds the telemetry handler exactly once.
C1_Witness ==
  /\ ret.op = "get_logger" /\ ret.ok
  /\ config.logging_enabled = "true"
  /\ \E i, j \in 1..Len(handler.processors) :
        i < j /\ handler.processors[i] = ret.name /\ handler.processors[j] = ret.name
  /\ Cardinality(NamedHandlers(ret.name)) = 1

\* C2: every AppLogger(...) call that returns yields the same instance; at most one
\* wrapper instance is ever constructed successfully.
C2_SingleInstance ==
  /\ Cardinality(returned) <= 1
  /\ created <= 1
  /\ (ret.op \in {"AppLogger", "__init__"} /\ ret.ok) => returned = {ret.inst}

\* C2 witness: a later AppLogger(...) call found the stored instance and returned it.
C2_Witness == ret.op = "AppLogger" /\ ret.inst = 1 /\ returned = {1} /\ created = 1

\* C3 (as claimed): a record without custom_dimensions of its own, logged through the
\* logger get_logger(C, D) returned, reaches the telemetry handler carrying exactly D.
C3_RecordCarriesRequestedDims ==
  (ret.op = "log" /\ ret.delivered > 0 /\ ret.own = EmptyDims)
    => ret.dims = requested[ret.name]

\* C4 (as claimed): every envelope's ai.cloud.role and ai.cloud.roleInstance equal the
\* component name given when the logger, tracer or flask exporter was obtained.
C4_RoleIsComponentName ==
  /\ (ret.op = "log" /\ ret.delivered > 0) => ret.tags = RoleTags(ret.name)
  /\ (ret.op \in {"get_tracer", "enable_flask"} /\ ret.ok) => ret.tags = RoleTags(ret.name)

\* C5 (as claimed): while the configuration's logging_enabled is not "true", no record
\* logged through a logger returned by get_logger is delivered to the telemetry handler.
C5_DisabledNotDelivered ==
  (ret.op = "log" /\ config.logging_enabled # "true") => ret.delivered = 0

\* C6: get_tracer returns an always-off sampler exactly when logging_enabled is not
\* the string "true", an always-on sampler when it is; an exporter is built either
\* way, with or without a parent tracer.
C6_SamplerFollowsLoggingEnabled ==
  (ret.op = "get_tracer" /\ ret.ok)
    => /\ ret.exporter
       /\ config.logging_enabled = "true" => ret.sampler = "AlwaysOn"
       /\ config.logging_enabled # "true" => ret.sampler = "AlwaysOff"

\* C6 witness: with logging_enabled the differently-cased string "True", get_tracer
\* with a parent tracer returned an always-off sampler and an exporter.
C6_Witness ==
  /\ ret.op = "get_tracer" /\ ret.ok /\ ret.parent
  /\ config.logging_enabled = "True"
  /\ ret.sampler = "AlwaysOff" /\ ret.exporter

FailsKeyNotSet == ~ret.ok /\ ret.err = ErrKeyNotSet /\ ~ret.exporter /\ ~ret.handler

\* C7 (as claimed): with no app_insights_key in the configuration and the environment
\* variable unset, construction, get_tracer and enable_flask all fail with the
\* key-not-set error and return nothing.
C7_Original ==
  (ret.op \in Resolvers /\ ret.cfgKey = None /\ ret.envSeen = None) => FailsKeyNotSet

\* C7 (amended): with no app_insights_key in the configuration and the environment
\* variable unset, construction and get_tracer fail with the key-not-set error and
\* return nothing; enable_flask does so too unless the wrapper still caches a
\* credential read earlier from the environment variable.
C7_Amended ==
  /\ (ret.op \in {"__init__", "get_tracer"} /\ ret.cfgKey = None /\ ret.envSeen = None)
       => FailsKeyNotSet
  /\ (ret.op = "enable_flask" /\ ret.cfgKey = None /\ ret.envSeen = None
        /\ ret.keyIn = None) => FailsKeyNotSet

\* C7 witness: enable_flask failed with the key-not-set error, the configuration
\* holding no key, the environment variable being unset and nothing cached.
C7_Witness ==
  /\ ret.op = "enable_flask" /\ FailsKeyNotSet
  /\ ret.cfgKey = None /\ ret.envSeen = None /\ ret.keyIn = None

\* C8: whenever the configuration holds an app_insights_key, resolution returns that
\* key whatever the environment variable is; an environment value is returned only
\* when the configuration has no key.
C8_ConfigKeyWins ==
  /\ (ret.op \in Resolvers /\ ret.ok /\ ret.cfgKey # None) => ret.key = ret.cfgKey
  /\ (ret.op \in Resolvers /\ ret.ok /\ ret.key \in EnvValues) => ret.cfgKey = None
  /\ (_instances # 0 /\ config.app_insights_key # None)
       => app_insights_key = config.app_insights_key

\* C8 witness: enable_flask resolved the configured key while the environment
\* variable was set to another value that had been resolved before.
C8_Witness ==
  /\ ret.op = "enable_flask" /\ ret.ok
  /\ ret.cfgKey = "K1" /\ ret.key = "K1" /\ ret.envSeen = "E1" /\ handler.key = "E1"

\* C9: get_logger returns a logger whose level is the log_level of the latest
\* update_config (or construction) that mentioned log_level; updates that do not
\* mention log_level leave it unchanged.
C9_LevelFollowsLastWrite ==
  (ret.op = "get_logger" /\ ret.ok)
    => /\ CheckLevel(lastLevelWrite).ok
       /\ loggers[ret.name].level = CheckLevel(lastLevelWrite).n

\* C9 witness: after an update to "DEBUG" a logger obtained before, at another level
\* setting, is returned again with level DEBUG.
C9_Witness ==
  /\ ret.op = "get_logger" /\ ret.ok
  /\ lastLevelWrite = StrLevel("DEBUG")
  /\ loggers[ret.name].level = DEBUG
  /\ \E n \in Names : n # ret.name /\ loggers[n].level = INFO

\* C10 (as claimed): once the credential has been resolved from the environment
\* variable, the configuration holding no key, later get_tracer and enable_flask calls
\* use that cached value whatever the environment variable has become.
C10_CachedCredentialUsed ==
  (ret.op \in {"get_tracer", "enable_flask"} /\ ret.cfgKey = None /\ firstEnvKey # None)
    => (ret.ok /\ ret.key = firstEnvKey)

====
